---- MODULE Spec2Model ----
(***************************************************************************)
(* A model of src/query/query.js: the Query builder, its immutable append  *)
(* protocol, the params accessor, evaluation as a fold over the verbs and  *)
(* the two serializations.                                                 *)
(*                                                                         *)
(* Query instances live in `queries` (an instance is its index, so two     *)
(* instances are distinct exactly when their indices differ).  Parameter   *)
(* objects live in `heap` and are held by reference, as in JavaScript: a   *)
(* Query's _params is a reference into the heap, and append copies that    *)
(* reference.  `last` records the most recent call: its receiver, its      *)
(* arguments and what it returned or threw.                                *)
(***************************************************************************)
EXTENDS Integers, Sequences, FiniteSets, TLC

VARIABLES queries, heap, last

vars == <<queries, heap, last>>

(***************************************************************************)
(* Bound of the model: the number of objects (Query instances and          *)
(* parameter objects) a run allocates.  A Query built by k appends needs   *)
(* k + 1 instances, so the bound also bounds the number of verbs.          *)
(***************************************************************************)
MaxAlloc == 4

(***************************************************************************)
(* JavaScript values.                                                      *)
(***************************************************************************)
Undefined == [type |-> "undefined"]
Null == [type |-> "null"]
Str(s) == [type |-> "string", val |-> s]
Ref(i) == [type |-> "object", ref |-> i]
Arr(s) == [type |-> "array", items |-> s]
Obj(m) == [type |-> "mapping", val |-> m]

\* JavaScript truthiness, as used by `a || b` and `a ? b : c`.
Truthy(v) ==
  CASE v.type \in {"undefined", "null"} -> FALSE
    [] v.type = "string" -> v.val /= ""
    [] OTHER -> TRUE

(***************************************************************************)
(* Parameter mappings: a mapping sends each key to a value, 0 meaning the  *)
(* key is not a property of the object.                                    *)
(***************************************************************************)
Keys == {"a", "b"}
NoProp == 0
EmptyObj == [k \in Keys |-> NoProp]
Mappings == {EmptyObj, [a |-> 1, b |-> NoProp], [a |-> 2, b |-> 2]}

\* The properties an object spread `...v` contributes: those of the object
\* v refers to, none when v is undefined or null.
Props(v) == IF v.type = "object" THEN heap[v.ref] ELSE EmptyObj

\* { ...a, ...b } on mappings: b's properties override a's.
Spread(a, b) == [k \in Keys |-> IF b[k] /= NoProp THEN b[k] ELSE a[k]]

(***************************************************************************)
(* Verbs (./verb): opaque units with evaluate, toObject, toAST, and the    *)
(* deserializer Verb.from.                                                 *)
(***************************************************************************)
VerbNames == {"derive", "filter"}
Verb(n) == [type |-> "verb", name |-> n]
VerbToObject(v) == [verb |-> v.name]
VerbToAST(v) == [type |-> "Verb", verb |-> v.name]
VerbFrom(o) == Verb(o.verb)
VerbMethod(method, v) ==
  IF method = "toObject" THEN VerbToObject(v) ELSE VerbToAST(v)

\* src/query/constants: the node type of a query in the AST form.
QueryType == "Query"

(***************************************************************************)
(* Transformable (../table/transformable): the constructor stores the      *)
(* parameter mapping it is given, when it is given one.                    *)
(***************************************************************************)
Transformable(p) == IF Truthy(p) THEN p ELSE Undefined

\* new Query(verbs, params, table)
Query(verbs, p, table) ==
  [_verbs |-> IF Truthy(verbs) THEN verbs.items ELSE <<>>,
   _params |-> Transformable(p),
   _table |-> table]

\* get length
length(q) == Len(q._verbs)

\* get tableName
tableName(q) == q._table

\* params() called with no argument
getParams(q) == q._params

\* An object literal property list: later properties win.
Assign(o, p) == p @@ o
NoProps == [k \in {} |-> 0]
Get(o, k) == IF k \in DOMAIN o THEN o[k] ELSE Undefined

\* serialize(query, method, props)
serialize(q, method, props) ==
  LET o1 == Assign(props,
              "verbs" :> [i \in 1..Len(q._verbs) |-> VerbMethod(method, q._verbs[i])])
      o2 == IF Truthy(q._params) THEN Assign(o1, "params" :> q._params) ELSE o1
      o3 == IF Truthy(q._table) THEN Assign(o2, "table" :> q._table) ELSE o2
  IN o3

toObject(q) == serialize(q, "toObject", NoProps)
toJSON(q) == toObject(q)
toAST(q) == serialize(q, "toAST", "type" :> QueryType)

\* Query.from({ verbs, table, params })
from(object) ==
  Query(Arr([i \in 1..Len(object.verbs) |-> VerbFrom(object.verbs[i])]),
        Get(object, "params"), Get(object, "table"))

\* The value of params() of q when the heap is h: the mapping its reference
\* points to.
ParamsValue(q, h) ==
  IF q._params.type = "object" THEN Obj(h[q._params.ref]) ELSE Undefined

\* A serialized object compared by structure: the params reference replaced
\* by the mapping it refers to.
Structural(o, h) ==
  IF "params" \in DOMAIN o THEN [o EXCEPT !["params"] = Obj(h[o.params.ref])] ELSE o

(***************************************************************************)
(* Tables, the catalog and the verbs' evaluate (external collaborators).   *)
(* A table has a name, columns, the operations applied to it so far and    *)
(* the parameter mapping attached to it.                                   *)
(***************************************************************************)
Table(n, cols, p) ==
  [type |-> "table", name |-> n, cols |-> cols, ops |-> <<>>, params |-> p]
TableT == Table("t", {}, Undefined)
TableU == Table("u", {"x"}, Obj([a |-> 1, b |-> NoProp]))
Tables == {TableT, TableU}
Catalogs == {{TableT}, {TableU}}
Error(by, what) == [type |-> "error", by |-> by, what |-> what]

\* catalog(name): the table of that name, or a failure when there is none.
CatalogCall(catalog, name) ==
  IF name.type = "string" /\ \E t \in catalog : t.name = name.val
    THEN CHOOSE t \in catalog : t.name = name.val
    ELSE Error("catalog", name)

\* Table.params(mapping): the table annotated with the mapping.
TableParams(t, p, h) ==
  IF p.type = "object" THEN [t EXCEPT !.params = Obj(h[p.ref])] ELSE t

\* verb.evaluate(table, catalog): derive produces column x; filter consumes
\* column x and refers to parameter a, and fails when either is missing.
VerbEvaluate(v, t, catalog) ==
  IF v.name = "derive"
    THEN [t EXCEPT !.cols = @ \cup {"x"},
                   !.ops = Append(@, [verb |-> "derive", param |-> NoProp])]
    ELSE IF "x" \notin t.cols
      THEN Error("filter", "x")
      ELSE IF t.params.type = "mapping" /\ t.params.val["a"] /= NoProp
        THEN [t EXCEPT !.ops = Append(@, [verb |-> "filter",
                                          param |-> t.params.val["a"]])]
        ELSE Error("filter", "a")

TableNames == {Undefined, Str(""), Str("t")}
EvalTableNames == {Undefined, Str("t")}
Instances == 1..Len(queries)
Instance(i) == [type |-> "query", id |-> i]

\* The calls evaluate(table, catalog) makes, in order, and its outcome.  The
\* loop stops at the first verb whose evaluate throws, and the exception is
\* the outcome.
RECURSIVE EvalLoop(_, _, _, _, _, _)
EvalLoop(verbs, i, table, p, catalog, calls) ==
  IF i > Len(verbs)
    THEN [status |-> "return", value |-> table, calls |-> calls]
    ELSE LET annotated == TableParams(table, p, heap)
             r == VerbEvaluate(verbs[i], annotated, catalog)
             calls2 == calls \o
               <<[fn |-> "Table.params", table |-> table, arg |-> p],
                 [fn |-> "Verb.evaluate", verb |-> verbs[i], table |-> annotated]>>
         IN IF r.type = "error"
              THEN [status |-> "throw", value |-> r, calls |-> calls2]
              ELSE EvalLoop(verbs, i + 1, r, p, catalog, calls2)

\* Variants of evaluate that a slip in the loop would produce.
Reverse(seq) == [k \in 1..Len(seq) |-> seq[Len(seq) + 1 - k]]

EvaluationReversed(q, table, catalog) ==
  IF Truthy(table)
    THEN EvalLoop(Reverse(q._verbs), 1, table, q._params, catalog, <<>>)
    ELSE LET src == CatalogCall(catalog, q._table)
             calls == <<[fn |-> "catalog", arg |-> q._table]>>
         IN IF src.type = "error"
              THEN [status |-> "throw", value |-> src, calls |-> calls]
              ELSE EvalLoop(Reverse(q._verbs), 1, src, q._params, catalog, calls)

EvaluationAnnotatesSource(q, table, catalog) ==
  IF Truthy(table)
    THEN EvalLoop(q._verbs, 1, TableParams(table, q._params, heap), q._params, catalog,
                  <<[fn |-> "Table.params", table |-> table, arg |-> q._params]>>)
    ELSE LET src == CatalogCall(catalog, q._table)
             calls == <<[fn |-> "catalog", arg |-> q._table]>>
         IN IF src.type = "error"
              THEN [status |-> "throw", value |-> src, calls |-> calls]
              ELSE EvalLoop(q._verbs, 1, TableParams(src, q._params, heap), q._params,
                            catalog, calls \o
                              <<[fn |-> "Table.params", table |-> src, arg |-> q._params]>>)

EvaluationCatalogFirst(q, table, catalog) ==
  LET src == CatalogCall(catalog, q._table)
      calls == <<[fn |-> "catalog", arg |-> q._table]>>
  IN IF src.type = "error"
       THEN IF Truthy(table)
              THEN EvalLoop(q._verbs, 1, table, q._params, catalog, calls)
              ELSE [status |-> "throw", value |-> src, calls |-> calls]
       ELSE EvalLoop(q._verbs, 1, src, q._params, catalog, calls)

RECURSIVE EvalLoopSkipsFailure(_, _, _, _, _, _)
EvalLoopSkipsFailure(verbs, i, table, p, catalog, calls) ==
  IF i > Len(verbs)
    THEN [status |-> "return", value |-> table, calls |-> calls]
    ELSE LET annotated == TableParams(table, p, heap)
             r == VerbEvaluate(verbs[i], annotated, catalog)
             calls2 == calls \o
               <<[fn |-> "Table.params", table |-> table, arg |-> p],
                 [fn |-> "Verb.evaluate", verb |-> verbs[i], table |-> annotated]>>
         IN IF r.type = "error"
              THEN EvalLoopSkipsFailure(verbs, i + 1, table, p, catalog, calls2)
              ELSE EvalLoopSkipsFailure(verbs, i + 1, r, p, catalog, calls2)

EvaluationSkipsFailure(q, table, catalog) ==
  IF Truthy(table)
    THEN EvalLoopSkipsFailure(q._verbs, 1, table, q._params, catalog, <<>>)
    ELSE LET src == CatalogCall(catalog, q._table)
             calls == <<[fn |-> "catalog", arg |-> q._table]>>
         IN IF src.type = "error"
              THEN [status |-> "throw", value |-> src, calls |-> calls]
              ELSE EvalLoopSkipsFailure(q._verbs, 1, src, q._params, catalog, calls)

\* evaluate(table, catalog)
Evaluation(q, table, catalog) ==
  IF Truthy(table)
    THEN EvalLoop(q._verbs, 1, table, q._params, catalog, <<>>)
    ELSE LET src == CatalogCall(catalog, q._table)
             calls == <<[fn |-> "catalog", arg |-> q._table]>>
         IN IF src.type = "error"
              THEN [status |-> "throw", value |-> src, calls |-> calls]
              ELSE EvalLoop(q._verbs, 1, src, q._params, catalog, calls)

Init ==
  /\ queries = <<>>
  /\ heap = <<>>
  /\ last = [op |-> "none"]

(***************************************************************************)
(* The handlers: what each call does to the instances and the heap.        *)
(***************************************************************************)
CanAlloc == Len(queries) + Len(heap) < MaxAlloc
NewInstance == Instance(Len(queries) + 1)

\* query(tableName)
query(name) ==
  /\ CanAlloc
  /\ queries' = Append(queries, Query(Null, Null, name))
  /\ UNCHANGED heap

\* queryFrom(object)
queryFrom(object) ==
  /\ CanAlloc
  /\ queries' = Append(queries, from(object))
  /\ UNCHANGED heap

\* Variants of append: pushing onto the receiver's own array, and building
\* the new array from the verb alone.
appendInPlace(qb, verb) ==
  /\ queries' = Append([queries EXCEPT ![qb]._verbs = Append(@, verb)],
                       Query(Arr(queries[qb]._verbs \o <<verb>>),
                             queries[qb]._params, queries[qb]._table))
  /\ UNCHANGED heap

appendDropsPrefix(qb, verb) ==
  /\ queries' = Append(queries,
                       Query(Arr(<<verb>>), queries[qb]._params, queries[qb]._table))
  /\ UNCHANGED heap

\* append(qb, verb): concat builds a fresh array, the parameter reference and
\* the table name are copied; the new instance takes the next free index.
append(qb, verb) ==
  /\ queries' = Append(queries,
                       Query(Arr(queries[qb]._verbs \o <<verb>>),
                             queries[qb]._params, queries[qb]._table))
  /\ UNCHANGED heap

\* The builder method addQueryVerb(name, verb) installs, called on self.
addQueryVerb(self, name) ==
  /\ CanAlloc
  /\ append(self, Verb(name))

\* The internal method '__name', called with the Query qb to append to (the
\* receiver is not used).
internalVerb(qb, name) ==
  /\ CanAlloc
  /\ append(qb, Verb(name))

\* The properties a params(values) argument contributes to the spread.
ArgProps(values) == IF values.type = "mapping" THEN values.val ELSE EmptyObj

\* Variants of params: assigning into the existing object instead of
\* spreading into a new one, and spreading in the opposite order.
paramsInPlace(self, nargs, values) ==
  IF nargs > 0
    THEN IF queries[self]._params.type = "object"
           THEN /\ heap' = [heap EXCEPT ![queries[self]._params.ref] =
                              Spread(@, ArgProps(values))]
                /\ UNCHANGED queries
           ELSE /\ CanAlloc
                /\ heap' = Append(heap, ArgProps(values))
                /\ queries' = [queries EXCEPT ![self]._params = Ref(Len(heap) + 1)]
    ELSE UNCHANGED <<queries, heap>>

paramsLeftBiased(self, nargs, values) ==
  IF nargs > 0
    THEN /\ CanAlloc
         /\ heap' = Append(heap, Spread(ArgProps(values), Props(queries[self]._params)))
         /\ queries' = [queries EXCEPT ![self]._params = Ref(Len(heap) + 1)]
    ELSE UNCHANGED <<queries, heap>>

\* params(values), nargs being arguments.length: the spread allocates a new
\* object and this._params is set to it.
params(self, nargs, values) ==
  IF nargs > 0
    THEN /\ CanAlloc
         /\ heap' = Append(heap, Spread(Props(queries[self]._params), ArgProps(values)))
         /\ queries' = [queries EXCEPT ![self]._params = Ref(Len(heap) + 1)]
    ELSE UNCHANGED <<queries, heap>>

\* What params(values) returns: this, or the current mapping.
paramsReturn(self, nargs, values) ==
  IF nargs > 0 THEN Instance(self) ELSE queries[self]._params

\* evaluate(table, catalog) assigns only to its local `table`.
evaluate(self, table, catalog) == UNCHANGED <<queries, heap>>

\* toObject(), toJSON() and toAST() assign nothing.
serializeCall(self, method) == UNCHANGED <<queries, heap>>

serializeReturn(self, method) ==
  CASE method = "toObject" -> toObject(queries[self])
    [] method = "toJSON" -> toJSON(queries[self])
    [] OTHER -> toAST(queries[self])

(***************************************************************************)
(* Spec: building, parameters and serialization.  `last` records the call  *)
(* and what it returned.                                                   *)
(***************************************************************************)
DoQuery ==
  \E t \in TableNames :
    /\ query(t)
    /\ last' = [op |-> "query", arg |-> t, ret |-> NewInstance]

DoQueryFrom ==
  \E i \in Instances :
    /\ queryFrom(toObject(queries[i]))
    /\ last' = [op |-> "queryFrom", src |-> i, arg |-> toObject(queries[i]),
                ret |-> NewInstance]

DoVerb ==
  \E i \in Instances, n \in VerbNames :
    /\ addQueryVerb(i, n)
    /\ last' = [op |-> "verb", qb |-> i, arg |-> n, ret |-> NewInstance]

DoInternalVerb ==
  \E qb \in Instances, n \in VerbNames :
    /\ internalVerb(qb, n)
    /\ last' = [op |-> "__verb", qb |-> qb, arg |-> n, ret |-> NewInstance]

DoParamsSet ==
  \E i \in Instances, m \in Mappings :
    /\ params(i, 1, Obj(m))
    /\ last' = [op |-> "params", self |-> i, nargs |-> 1, arg |-> Obj(m),
                ret |-> paramsReturn(i, 1, Obj(m))]

DoParamsGet ==
  \E i \in Instances :
    /\ params(i, 0, Undefined)
    /\ last' = [op |-> "params", self |-> i, nargs |-> 0, arg |-> Undefined,
                ret |-> paramsReturn(i, 0, Undefined)]

DoSerialize ==
  \E i \in Instances, m \in {"toObject", "toJSON", "toAST"} :
    /\ serializeCall(i, m)
    /\ last' = [op |-> m, self |-> i, ret |-> serializeReturn(i, m)]

Next ==
  \/ DoQuery
  \/ DoQueryFrom
  \/ DoVerb
  \/ DoInternalVerb
  \/ DoParamsSet
  \/ DoParamsGet
  \/ DoSerialize

Spec == Init /\ [][Next]_vars

(***************************************************************************)
(* SpecEval: building a Query and evaluating it.  `last` records the       *)
(* evaluate calls: receiver, arguments, the calls made and the outcome.    *)
(***************************************************************************)
Built == [op |-> "build"]

EvQuery == \E t \in EvalTableNames : query(t) /\ last' = Built

EvVerb == \E i \in Instances, n \in VerbNames : addQueryVerb(i, n) /\ last' = Built

EvParams == \E i \in Instances, m \in Mappings : params(i, 1, Obj(m)) /\ last' = Built

EvEvaluate ==
  \E i \in Instances, t \in Tables \cup {Null}, c \in Catalogs :
    /\ evaluate(i, t, c)
    /\ last' = [op |-> "evaluate", self |-> i, table |-> t, catalog |-> c,
                ret |-> Evaluation(queries[i], t, c)]

NextEval ==
  \/ EvQuery
  \/ EvVerb
  \/ EvParams
  \/ EvEvaluate

SpecEval == Init /\ [][NextEval]_vars
(***************************************************************************)
(* Properties of building, parameters and serialization (under Spec).      *)
(***************************************************************************)
\* What a caller can observe of a Query q when the heap is h.
Observe(q, h) ==
  [length |-> length(q), tableName |-> tableName(q), params |-> ParamsValue(q, h),
   object |-> Structural(toObject(q), h)]

IsAppend(l) == l.op \in {"verb", "__verb"}

\* C1: a verb appended through a builder method or an internal '__name'
\* method returns a new instance, distinct from every existing one, and
\* leaves every existing Query (the receiver included) with the same length,
\* tableName, params() and toObject() as before, at every append of a run.
C1_AppendReturnsNewAndLeavesOthers ==
  [][IsAppend(last') =>
       /\ last'.ret.id \notin Instances
       /\ last'.ret.id \in 1..Len(queries')
       /\ \A i \in Instances : Observe(queries'[i], heap') = Observe(queries[i], heap)]_vars

\* Two pipelines derived from a common prefix that has parameters, the
\* second just appended.
C1_Witness ==
  /\ IsAppend(last)
  /\ Len(queries) = 3
  /\ last.qb = 1 /\ last.ret.id = 3
  /\ queries[1]._params.type = "object"
  /\ queries[2]._verbs = queries[1]._verbs \o <<Verb("derive")>>
  /\ queries[3]._verbs = queries[1]._verbs \o <<Verb("filter")>>

\* C2: queryFrom(q.toObject()) has the same verbs in the same order, the
\* same params and the same table name as q, and its toObject() is
\* structurally equal to q.toObject().
C2_RoundTrip ==
  last.op = "queryFrom" =>
    LET q == queries[last.src]
        r == queries[last.ret.id]
    IN /\ r._verbs = q._verbs
       /\ ParamsValue(r, heap) = ParamsValue(q, heap)
       /\ tableName(r) = tableName(q)
       /\ Structural(toObject(r), heap) = Structural(toObject(q), heap)

\* C3: query() returns a Query of length 0, every append returns a Query
\* whose verbs are the receiver's followed by the appended verb (so its
\* length is one more), no call changes the length of an existing Query, and
\* toObject().verbs and toAST().verbs hold, entry by entry, the toObject and
\* toAST serialization of the verbs; toAST has the keys of toObject and a
\* type tag, and the same values under every key but verbs.
C3_Serialized(q) ==
  LET o == toObject(q)
      t == toAST(q)
  IN /\ Len(o.verbs) = length(q)
     /\ Len(t.verbs) = length(q)
     /\ \A k \in 1..length(q) :
          /\ o.verbs[k] = VerbToObject(q._verbs[k])
          /\ t.verbs[k] = VerbToAST(q._verbs[k])
     /\ DOMAIN t = DOMAIN o \cup {"type"}
     /\ "type" \notin DOMAIN o
     /\ t.type = QueryType
     /\ \A key \in DOMAIN o \ {"verbs"} : t[key] = o[key]

C3_VerbCountAndOrder ==
  /\ [](\A i \in Instances : C3_Serialized(queries[i]))
  /\ [][/\ last'.op = "query" => length(queries'[last'.ret.id]) = 0
        /\ IsAppend(last') =>
             /\ queries'[last'.ret.id]._verbs =
                  queries[last'.qb]._verbs \o <<Verb(last'.arg)>>
             /\ length(queries'[last'.ret.id]) = length(queries[last'.qb]) + 1
        /\ \A i \in Instances : length(queries'[i]) = length(queries[i])]_vars

\* A Query built by two appends of different verbs.
C3_Witness ==
  /\ IsAppend(last)
  /\ queries[last.ret.id]._verbs = <<Verb("derive"), Verb("filter")>>
  /\ length(queries[last.qb]) = 1

\* C4: params(mapping) returns the receiver and leaves it with the
\* right-biased merge of its previous mapping and the argument (a key of the
\* argument takes the argument's value, any other key keeps its value; an
\* empty argument leaves the contents as they were), its verbs and tableName
\* unchanged; params() returns the current mapping and changes nothing.
OldProps(q, h) == IF q._params.type = "object" THEN h[q._params.ref] ELSE EmptyObj

C4_ParamMerge ==
  [][last'.op = "params" =>
       LET i == last'.self
       IN IF last'.nargs > 0
            THEN /\ last'.ret = Instance(i)
                 /\ queries'[i]._params.type = "object"
                 /\ \A k \in Keys :
                      OldProps(queries'[i], heap')[k] =
                        IF last'.arg.val[k] /= NoProp
                          THEN last'.arg.val[k]
                          ELSE OldProps(queries[i], heap)[k]
                 /\ last'.arg.val = EmptyObj =>
                      OldProps(queries'[i], heap') = OldProps(queries[i], heap)
                 /\ queries'[i]._verbs = queries[i]._verbs
                 /\ queries'[i]._table = queries[i]._table
            ELSE /\ last'.ret = queries[i]._params
                 /\ queries' = queries
                 /\ heap' = heap]_vars

\* {a: 1} merged into {a: 2, b: 2}: a overridden, b preserved.
C4_Witness ==
  /\ last.op = "params"
  /\ last.nargs = 1
  /\ last.arg = Obj([a |-> 1, b |-> NoProp])
  /\ ParamsValue(queries[last.self], heap) = Obj([a |-> 1, b |-> 2])

\* C6: toObject() (and toJSON(), identical) always has a verbs key, has a
\* table key exactly when the Query has a table name, its value that name,
\* and a params key exactly when the Query has a parameter mapping, its
\* value that mapping; no key is present with a null or undefined value.
C6_FieldOmission ==
  \A i \in Instances :
    LET q == queries[i]
        o == toObject(q)
    IN /\ toJSON(q) = o
       /\ "verbs" \in DOMAIN o
       /\ "table" \in DOMAIN o <=> tableName(q) /= Undefined
       /\ "table" \in DOMAIN o => o.table = tableName(q)
       /\ "params" \in DOMAIN o <=> getParams(q) /= Undefined
       /\ "params" \in DOMAIN o => o.params = getParams(q)
       /\ \A key \in DOMAIN o \ {"verbs"} : o[key] \notin {Undefined, Null}

\* C10: a params(mapping) call on one instance changes neither params() nor
\* toObject() of any other instance, whatever appends and params calls
\* came before.
C10_ParamIsolation ==
  [][last'.op = "params" =>
       \A j \in Instances \ {last'.self} :
         /\ ParamsValue(queries'[j], heap') = ParamsValue(queries[j], heap)
         /\ Structural(toObject(queries'[j]), heap') = Structural(toObject(queries[j]), heap)]_vars

\* A child derived from a parent whose mapping was {a: 2, b: 2}, sharing the
\* object; the parent then merged {a: 1}: the child still sees {a: 2, b: 2}.
C10_Witness ==
  /\ last.op = "params" /\ last.nargs = 1 /\ last.self = 1
  /\ Len(queries) = 2 /\ Len(heap) = 2
  /\ queries[2]._verbs = queries[1]._verbs \o <<Verb("derive")>>
  /\ queries[2]._params = Ref(1)
  /\ queries[1]._params = Ref(2)
  /\ ParamsValue(queries[2], heap) = Obj([a |-> 2, b |-> 2])
  /\ ParamsValue(queries[1], heap) = Obj([a |-> 1, b |-> 2])

(***************************************************************************)
(* Properties of evaluate (under SpecEval).  After an evaluate call, last  *)
(* holds the receiver, the arguments, the calls made and the outcome.      *)
(***************************************************************************)
Evaluated == last.op = "evaluate"
EvQ == queries[last.self]
IsVerbCall(c) == c.fn = "Verb.evaluate"
IsParamsCall(c) == c.fn = "Table.params"
IsCatalogCall(c) == c.fn = "catalog"
VerbCalls == SelectSeq(last.ret.calls, IsVerbCall)
ParamsCalls == SelectSeq(last.ret.calls, IsParamsCall)
CatalogCalls == SelectSeq(last.ret.calls, IsCatalogCall)

\* The source table of the call: the table supplied, else the catalog's.
Supplied == last.table /= Null
Source == IF Supplied THEN last.table ELSE CatalogCall(last.catalog, EvQ._table)
Attach(t) == TableParams(t, EvQ._params, heap)
Outcome(c) == VerbEvaluate(c.verb, c.table, last.catalog)

\* C5: evaluate invokes the verbs' evaluate in append order, each once: the
\* k-th invocation is of the k-th verb, the first receives the source table
\* and each later one the previous verb's result, always with the Query's
\* current parameter mapping attached by Table.params first; when all have
\* run, the result of evaluate is the last verb's result.
C5_LeftFold ==
  Evaluated =>
    LET n == Len(VerbCalls)
    IN /\ n <= length(EvQ)
       /\ Len(ParamsCalls) = n
       /\ \A k \in 1..n :
            /\ VerbCalls[k].verb = EvQ._verbs[k]
            /\ ParamsCalls[k].arg = getParams(EvQ)
            /\ ParamsCalls[k].table = IF k = 1 THEN Source ELSE Outcome(VerbCalls[k - 1])
            /\ VerbCalls[k].table = Attach(ParamsCalls[k].table)
       /\ (last.ret.status = "return" /\ length(EvQ) > 0) =>
            /\ n = length(EvQ)
            /\ last.ret.value = Outcome(VerbCalls[n])

\* derive then filter on a table with no column x and no parameters, the
\* Query's mapping {a: 2, b: 2}: filter sees derive's column and the Query's
\* parameter.
C5_Witness ==
  /\ Evaluated
  /\ last.table = TableT
  /\ EvQ._verbs = <<Verb("derive"), Verb("filter")>>
  /\ last.ret.status = "return"
  /\ last.ret.value.ops = <<[verb |-> "derive", param |-> NoProp],
                            [verb |-> "filter", param |-> 2]>>

\* C7 as claimed: with no verbs, evaluate returns the source table with the
\* Query's parameter mapping attached, and invokes no verb.
C7_EmptyReturnsAnnotated ==
  (Evaluated /\ length(EvQ) = 0 /\ last.ret.status = "return") =>
    /\ last.ret.value = Attach(Source)
    /\ VerbCalls = <<>>

\* C7 amended: with no verbs, evaluate returns the source table itself (the
\* table supplied, else the one the catalog resolves); Table.params is not
\* called, so the Query's mapping is not attached, and no verb is invoked.
C7_EmptyReturnsSource ==
  (Evaluated /\ length(EvQ) = 0) =>
    /\ VerbCalls = <<>>
    /\ ParamsCalls = <<>>
    /\ Source.type = "table" =>
         /\ last.ret.status = "return"
         /\ last.ret.value = Source

\* A Query with a mapping and no verbs, evaluated on a table without
\* parameters: the table comes back without them.
C7_Witness ==
  /\ Evaluated
  /\ length(EvQ) = 0
  /\ getParams(EvQ) /= Undefined
  /\ last.table = TableT
  /\ last.ret.status = "return"
  /\ last.ret.value = TableT
  /\ last.ret.value.params = Undefined

\* C8: the catalog is invoked exactly when no table is supplied, once and
\* with the Query's tableName; a supplied table is the source; when none is
\* supplied and the catalog fails, evaluate fails with the catalog's failure
\* and no verb is invoked.
C8_SourceResolution ==
  Evaluated =>
    /\ Len(CatalogCalls) = (IF Supplied THEN 0 ELSE 1)
    /\ \A k \in 1..Len(CatalogCalls) : CatalogCalls[k].arg = tableName(EvQ)
    /\ (Supplied /\ length(EvQ) > 0) => ParamsCalls[1].table = last.table
    /\ (Supplied /\ length(EvQ) = 0) => last.ret.value = last.table
    /\ (~Supplied /\ Source.type = "error") =>
         /\ last.ret.status = "throw"
         /\ last.ret.value = Source
         /\ VerbCalls = <<>>
    /\ (~Supplied /\ Source.type = "table" /\ length(EvQ) > 0) =>
         ParamsCalls[1].table = Source

\* No table supplied, a Query with verbs and a name the catalog does not
\* know: the catalog's failure.
C8_Witness ==
  /\ Evaluated
  /\ ~Supplied
  /\ tableName(EvQ) = Str("t")
  /\ length(EvQ) > 0
  /\ last.ret.status = "throw"
  /\ last.ret.value = Error("catalog", Str("t"))

\* C9: when a verb's evaluate fails, the verbs before it were each evaluated
\* once, in order, and did not fail, no later verb is evaluated, and
\* evaluate throws exactly that failure; and no evaluate, failed or not,
\* changes any Query's verbs, params or tableName.
C9_FirstFailureStops ==
  /\ [](Evaluated =>
          LET n == Len(VerbCalls)
          IN /\ \A k \in 1..n : VerbCalls[k].verb = EvQ._verbs[k]
             /\ \A k \in 1..(n - 1) : Outcome(VerbCalls[k]).type = "table"
             /\ (n > 0 /\ Outcome(VerbCalls[n]).type = "error") =>
                  /\ last.ret.status = "throw"
                  /\ last.ret.value = Outcome(VerbCalls[n])
             /\ (last.ret.status = "throw" /\ CatalogCalls = <<>>) =>
                  /\ n > 0
                  /\ last.ret.value = Outcome(VerbCalls[n])
             /\ last.ret.status = "return" => last.ret.value.type = "table")
  /\ [][last'.op = "evaluate" => (queries' = queries /\ heap' = heap)]_vars

\* Three verbs, the second fails: the third is not evaluated.
C9_Witness ==
  /\ Evaluated
  /\ length(EvQ) = 3
  /\ Len(VerbCalls) = 2
  /\ last.ret.status = "throw"
  /\ last.ret.value = Error("filter", "a")
====
